---- MODULE Spec2Model ----
(***************************************************************************)
(* User API (services/userService.js + controllers/userController.js)     *)
(* over the "users" table of the init_user_model migration.               *)
(*                                                                         *)
(* Each HTTP exchange is a process slot.  A handler runs synchronously up *)
(* to its first await; every later step is one round trip to the table    *)
(* together with the synchronous continuation that follows it (which only *)
(* touches the handler's locals).  Round trips of different exchanges     *)
(* interleave freely.                                                      *)
(*                                                                         *)
(* Strings that the code inspects character by character (the :id route   *)
(* parameter) are sequences of characters, each a string holding the      *)
(* character (or its code point name, see WhiteSpace); error messages are *)
(* sequences of words, so that String.prototype.includes is a search for  *)
(* a contiguous run of words.                                              *)
(***************************************************************************)
EXTENDS Integers, Sequences, FiniteSets

VARIABLES users, nextId, now, pc, op, rid, body, usuarioExistente, resp,
          log, reqCount, removed, created, touched

vars == <<users, nextId, now, pc, op, rid, body, usuarioExistente, resp,
          log, reqCount, removed, created, touched>>

\* users             rows of the "users" table
\* nextId            next value of the SERIAL sequence behind "id"
\* now               the clock that stamps createdAt and updatedAt
\* pc[p]             where the handler of exchange p stands: "idle", the
\*                   await it is suspended at, or "done"
\* op[p], rid[p], body[p]   the route, its :id parameter and req.body
\* usuarioExistente[p]      the row read by the existence lookup ({} = null)
\* resp[p]           what the controller answered
\* log[p]            the table calls the request has made so far
\* reqCount          requests accepted so far
\* removed           ids whose delete has succeeded
\* created           {id, nome, email} of every payload that was stored
\* touched           ids that an update or a delete has written

\* ------------------------------------------------------------------ bounds
\* Number of HTTP requests accepted in one behaviour.
MaxReqs == 4

\* The exchanges that can be in flight at the same time.
Procs == {"p1", "p2"}

\* ------------------------------------------------------------- JS values
Undef == "<undefined>"
Null == "<null>"

\* JavaScript truthiness of a string-or-missing value (!v is its negation).
Truthy(v) == v \notin {Undef, Null, ""}

\* ----------------------------------------------------- numeric coercions
Digits == {"0", "1", "2", "3", "4", "5", "6", "7", "8", "9"}
HexDigits == Digits \cup {"a", "b", "c", "d", "e", "f", "A", "B", "C", "D", "E", "F"}
OctalDigits == {"0", "1", "2", "3", "4", "5", "6", "7"}
BinaryDigits == {"0", "1"}

\* White space that StringToNumber trims and parseInt skips (WhiteSpace and
\* LineTerminator of ECMAScript): U+0009, U+000A, U+000B, U+000C, U+000D,
\* U+0020, U+00A0, U+1680, U+FEFF written as the character itself, and
\* U+2000..U+200A, U+2028, U+2029, U+202F, U+205F, U+3000, which a string
\* of this language cannot hold, written as the name of the code point.
WhiteSpace ==
  { "\t", "\n", "", "\f", "\r", " ", " ", " ", "﻿",
    "U+2000", "U+2001", "U+2002", "U+2003", "U+2004", "U+2005",
    "U+2006", "U+2007", "U+2008", "U+2009", "U+200A",
    "U+2028", "U+2029", "U+202F", "U+205F", "U+3000" }

DigitVal(c) ==
  CASE c = "0" -> 0 [] c = "1" -> 1 [] c = "2" -> 2 [] c = "3" -> 3
    [] c = "4" -> 4 [] c = "5" -> 5 [] c = "6" -> 6 [] c = "7" -> 7
    [] c = "8" -> 8 [] c = "9" -> 9
    [] c \in {"a", "A"} -> 10 [] c \in {"b", "B"} -> 11
    [] c \in {"c", "C"} -> 12 [] c \in {"d", "D"} -> 13
    [] c \in {"e", "E"} -> 14 [] c \in {"f", "F"} -> 15

AllDigits(s) == \A i \in 1..Len(s) : s[i] \in Digits

\* Length of the longest prefix of s made of characters of the set cs.
PrefixLen(s, cs) ==
  IF s = <<>> \/ s[1] \notin cs THEN 0
  ELSE IF \A i \in 1..Len(s) : s[i] \in cs THEN Len(s)
  ELSE (CHOOSE i \in 1..Len(s) :
          s[i] \notin cs /\ \A j \in 1..(i - 1) : s[j] \in cs) - 1

\* Length of the longest suffix of s made of characters of the set cs.
SuffixLen(s, cs) ==
  IF s = <<>> \/ s[Len(s)] \notin cs THEN 0
  ELSE IF \A i \in 1..Len(s) : s[i] \in cs THEN Len(s)
  ELSE Len(s) - (CHOOSE i \in 1..Len(s) :
                   s[i] \notin cs /\ \A j \in (i + 1)..Len(s) : s[j] \in cs)

\* Length of the longest prefix of s made of decimal digits.
DigitPrefixLen(s) == PrefixLen(s, Digits)

\* The largest value of an INT4 column ("id" is SERIAL).
Int4Max == 2147483647

\* Value of the digit string s (without leading zeros) in the given radix,
\* or -1 when the value exceeds Int4Max.
RECURSIVE PlaceValue(_, _)
PlaceValue(s, radix) ==
  IF s = <<>> THEN 0
  ELSE LET hi == PlaceValue(SubSeq(s, 1, Len(s) - 1), radix)
           lo == DigitVal(s[Len(s)])
       IN IF hi < 0 \/ hi > (Int4Max - lo) \div radix THEN 0 - 1
          ELSE radix * hi + lo

\* Value of the digit string s in the given radix, or -1 when the value
\* exceeds Int4Max (as every string of more than 31 significant digits does).
RadixValue(s, radix) ==
  LET sig == IF s = <<>> \/ s[1] # "0" THEN s
             ELSE SubSeq(s, PrefixLen(s, {"0"}) + 1, Len(s))
  IN IF Len(sig) > 31 THEN 0 - 1 ELSE PlaceValue(sig, radix)

DigitsValue(s) == RadixValue(s, 10)

TrimLeft(s) ==
  IF s = <<>> \/ s[1] \notin WhiteSpace THEN s
  ELSE SubSeq(s, PrefixLen(s, WhiteSpace) + 1, Len(s))

TrimRight(s) ==
  IF s = <<>> \/ s[Len(s)] \notin WhiteSpace THEN s
  ELSE SubSeq(s, 1, Len(s) - SuffixLen(s, WhiteSpace))

Trim(s) == TrimRight(TrimLeft(s))

StripSign(s) == IF s # <<>> /\ Head(s) \in {"+", "-"} THEN Tail(s) ELSE s
IsNegative(s) == s # <<>> /\ Head(s) = "-"

\* s starts with "0" followed by one of the letters of the set letters.
HasRadixPrefix(s, letters) == Len(s) >= 2 /\ s[1] = "0" /\ s[2] \in letters

\* parseInt(string) without radix: leading white space is skipped, then an
\* optional sign, then a 0x / 0X prefix selects radix 16 (radix 10
\* otherwise), then the longest run of digits of that radix; NaN when that
\* run is empty.  Whatever follows the run is ignored.  big: the magnitude
\* exceeds Int4Max (val is then 0), so the value cannot be an id.
ParseInt(s) ==
  LET t == TrimLeft(s)
      u == StripSign(t)
      hex == HasRadixPrefix(u, {"x", "X"})
      w == IF hex THEN SubSeq(u, 3, Len(u)) ELSE u
      n == PrefixLen(w, IF hex THEN HexDigits ELSE Digits)
      v == RadixValue(IF n = Len(w) THEN w ELSE SubSeq(w, 1, n),
                      IF hex THEN 16 ELSE 10)
  IN IF n = 0 THEN [nan |-> TRUE, big |-> FALSE, val |-> 0]
     ELSE IF v < 0 THEN [nan |-> FALSE, big |-> TRUE, val |-> 0]
     ELSE [nan |-> FALSE, big |-> FALSE, val |-> IF IsNegative(t) THEN 0 - v ELSE v]

\* Position of the first occurrence of character c in s, 0 when absent.
IndexOf(s, c) ==
  IF \E i \in 1..Len(s) : s[i] = c
  THEN CHOOSE i \in 1..Len(s) : s[i] = c /\ \A j \in 1..(i - 1) : s[j] # c
  ELSE 0

\* Position of the exponent indicator (e or E) of a decimal literal.
ExponentAt(s) ==
  LET lower == IndexOf(s, "e")
      upper == IndexOf(s, "E")
  IN IF lower = 0 THEN upper
     ELSE IF upper = 0 THEN lower
     ELSE IF lower < upper THEN lower ELSE upper

\* Exponents beyond this magnitude are all alike: the value is 0 or Infinity.
ExponentCap == 1000000

\* Value of the digits of an exponent part, at most ExponentCap.
ExponentValue(ds) ==
  LET zeros == PrefixLen(ds, {"0"})
      sig == SubSeq(ds, zeros + 1, Len(ds))
  IN IF Len(sig) > 6 THEN ExponentCap ELSE DigitsValue(sig)

\* The significant digits of 2^-1075, which is 2.4703...e-324: half of
\* Number.MIN_VALUE, the largest magnitude that rounds to 0.
HalfMinValueDigits ==
  << 2, 4, 7, 0, 3, 2, 8, 2, 2, 9, 2, 0, 6, 2, 3, 2, 7, 2, 0, 8, 8, 2, 8, 4,
     3, 9, 6, 4, 3, 4, 1, 1, 0, 6, 8, 6, 1, 8, 2, 5, 2, 9, 9, 0, 1, 3, 0, 7,
     1, 6, 2, 3, 8, 2, 2, 1, 2, 7, 9, 2, 8, 4, 1, 2, 5, 0, 3, 3, 7, 7, 5, 3,
     6, 3, 5, 1, 0, 4, 3, 7, 5, 9, 3, 2, 6, 4, 9, 9, 1, 8, 1, 8, 0, 8, 1, 7,
     9, 9, 6, 1, 8, 9, 8, 9, 8, 2, 8, 2, 3, 4, 7, 7, 2, 2, 8, 5, 8, 8, 6, 5,
     4, 6, 3, 3, 2, 8, 3, 5, 5, 1, 7, 7, 9, 6, 9, 8, 9, 8, 1, 9, 9, 3, 8, 7,
     3, 9, 8, 0, 0, 5, 3, 9, 0, 9, 3, 9, 0, 6, 3, 1, 5, 0, 3, 5, 6, 5, 9, 5,
     1, 5, 5, 7, 0, 2, 2, 6, 3, 9, 2, 2, 9, 0, 8, 5, 8, 3, 9, 2, 4, 4, 9, 1,
     0, 5, 1, 8, 4, 4, 3, 5, 9, 3, 1, 8, 0, 2, 8, 4, 9, 9, 3, 6, 5, 3, 6, 1,
     5, 2, 5, 0, 0, 3, 1, 9, 3, 7, 0, 4, 5, 7, 6, 7, 8, 2, 4, 9, 2, 1, 9, 3,
     6, 5, 6, 2, 3, 6, 6, 9, 8, 6, 3, 6, 5, 8, 4, 8, 0, 7, 5, 7, 0, 0, 1, 5,
     8, 5, 7, 6, 9, 2, 6, 9, 9, 0, 3, 7, 0, 6, 3, 1, 1, 9, 2, 8, 2, 7, 9, 5,
     5, 8, 5, 5, 1, 3, 3, 2, 9, 2, 7, 8, 3, 4, 3, 3, 8, 4, 0, 9, 3, 5, 1, 9,
     7, 8, 0, 1, 5, 5, 3, 1, 2, 4, 6, 5, 9, 7, 2, 6, 3, 5, 7, 9, 5, 7, 4, 6,
     2, 2, 7, 6, 6, 4, 6, 5, 2, 7, 2, 8, 2, 7, 2, 2, 0, 0, 5, 6, 3, 7, 4, 0,
     0, 6, 4, 8, 5, 4, 9, 9, 9, 7, 7, 0, 9, 6, 5, 9, 9, 4, 7, 0, 4, 5, 4, 0,
     2, 0, 8, 2, 8, 1, 6, 6, 2, 2, 6, 2, 3, 7, 8, 5, 7, 3, 9, 3, 4, 5, 0, 7,
     3, 6, 3, 3, 9, 0, 0, 7, 9, 6, 7, 7, 6, 1, 9, 3, 0, 5, 7, 7, 5, 0, 6, 7,
     4, 0, 1, 7, 6, 3, 2, 4, 6, 7, 3, 6, 0, 0, 9, 6, 8, 9, 5, 1, 3, 4, 0, 5,
     3, 5, 5, 3, 7, 4, 5, 8, 5, 1, 6, 6, 6, 1, 1, 3, 4, 2, 2, 3, 7, 6, 6, 6,
     7, 8, 6, 0, 4, 1, 6, 2, 1, 5, 9, 6, 8, 0, 4, 6, 1, 9, 1, 4, 4, 6, 7, 2,
     9, 1, 8, 4, 0, 3, 0, 0, 5, 3, 0, 0, 5, 7, 5, 3, 0, 8, 4, 9, 0, 4, 8, 7,
     6, 5, 3, 9, 1, 7, 1, 1, 3, 8, 6, 5, 9, 1, 6, 4, 6, 2, 3, 9, 5, 2, 4, 9,
     1, 2, 6, 2, 3, 6, 5, 3, 8, 8, 1, 8, 7, 9, 6, 3, 6, 2, 3, 9, 3, 7, 3, 2,
     8, 0, 4, 2, 3, 8, 9, 1, 0, 1, 8, 6, 7, 2, 3, 4, 8, 4, 9, 7, 6, 6, 8, 2,
     3, 5, 0, 8, 9, 8, 6, 3, 3, 8, 8, 5, 8, 7, 9, 2, 5, 6, 2, 8, 3, 0, 2, 7,
     5, 5, 9, 9, 5, 6, 5, 7, 5, 2, 4, 4, 5, 5, 5, 0, 7, 2, 5, 5, 1, 8, 9, 3,
     1, 3, 6, 9, 0, 8, 3, 6, 2, 5, 4, 7, 7, 9, 1, 8, 6, 9, 4, 8, 6, 6, 7, 9,
     9, 4, 9, 6, 8, 3, 2, 4, 0, 4, 9, 7, 0, 5, 8, 2, 1, 0, 2, 8, 5, 1, 3, 1,
     8, 5, 4, 5, 1, 3, 9, 6, 2, 1, 3, 8, 3, 7, 7, 2, 2, 8, 2, 6, 1, 4, 5, 4,
     3, 7, 6, 9, 3, 4, 1, 2, 5, 3, 2, 0, 9, 8, 5, 9, 1, 3, 2, 7, 6, 6, 7, 2,
     3, 6, 3, 2, 8, 1, 2, 5 >>

\* The digit string a, read as 0.a, exceeds 0.b for the digit tuple b.
ExceedsDigits(a, b) ==
  LET At(i) == IF i <= Len(a) THEN DigitVal(a[i]) ELSE 0
      Bt(i) == IF i <= Len(b) THEN b[i] ELSE 0
      n == IF Len(a) > Len(b) THEN Len(a) ELSE Len(b)
  IN \E i \in 1..n : At(i) > Bt(i) /\ \A j \in 1..(i - 1) : At(j) = Bt(j)

\* 0x / 0b / 0o integer literal (no sign allowed): "nan" when it is not one.
NonDecimalToNumber(t) ==
  LET ds == SubSeq(t, 3, Len(t))
      set == IF t[2] \in {"x", "X"} THEN HexDigits
             ELSE IF t[2] \in {"b", "B"} THEN BinaryDigits
             ELSE OctalDigits
  IN IF ds = <<>> \/ \E i \in 1..Len(ds) : ds[i] \notin set THEN "nan"
     ELSE IF \A i \in 1..Len(ds) : ds[i] = "0" THEN "zero"
     ELSE "pos"

\* [+-] Infinity, or the decimal literal
\* [+-] digits [. [digits]] [(e|E) [+-] digits]  (or . digits), rounded to
\* the nearest double: a magnitude of at most 2^-1075 is 0.
DecimalToNumber(t) ==
  LET u == StripSign(t)
      e == ExponentAt(u)
      mant == IF e = 0 THEN u ELSE SubSeq(u, 1, e - 1)
      signedExpo == IF e = 0 THEN <<>> ELSE SubSeq(u, e + 1, Len(u))
      expo == StripSign(signedExpo)
      d == IndexOf(mant, ".")
      ip == IF d = 0 THEN mant ELSE SubSeq(mant, 1, d - 1)
      fp == IF d = 0 THEN <<>> ELSE SubSeq(mant, d + 1, Len(mant))
      wellFormed == /\ AllDigits(ip) /\ AllDigits(fp)
                    /\ Len(ip) + Len(fp) > 0
                    /\ (e # 0 => (expo # <<>> /\ AllDigits(expo)))
      ds == ip \o fp
      zeros == PrefixLen(ds, {"0"})
      sig == SubSeq(ds, zeros + 1, Len(ds))
      expoVal == IF IsNegative(signedExpo) THEN 0 - ExponentValue(expo)
                 ELSE ExponentValue(expo)
      \* the value is  sig[1].sig[2]sig[3]... * 10^lead
      lead == Len(ip) - (zeros + 1) + expoVal
      isZero == \/ sig = <<>>
                \/ lead < -324
                \/ lead = -324 /\ ~ExceedsDigits(sig, HalfMinValueDigits)
  IN IF u = <<"I", "n", "f", "i", "n", "i", "t", "y">>
     THEN (IF IsNegative(t) THEN "neg" ELSE "pos")
     ELSE IF ~wellFormed THEN "nan"
     ELSE IF isZero THEN "zero"
     ELSE IF IsNegative(t) THEN "neg"
     ELSE "pos"

\* ToNumber(string) as used by isNaN(x) and x <= 0: surrounding white space
\* is trimmed, "" is 0, and the rest must be one numeric literal.  The
\* result is classified as "nan", "neg", "zero" or "pos" (-0 is "zero").
ToNumber(s) ==
  LET t == Trim(s)
  IN IF t = <<>> THEN "zero"
     ELSE IF HasRadixPrefix(t, {"x", "X", "b", "B", "o", "O"}) THEN NonDecimalToNumber(t)
     ELSE DecimalToNumber(t)

\* The guard  !userId || isNaN(userId) || userId <= 0  of getUserById,
\* updateUser and deleteUser.
InvalidId(userId) ==
  LET n == ToNumber(userId)
  IN \/ userId = <<>>
     \/ n = "nan"
     \/ n \in {"neg", "zero"}

\* ---------------------------------------------------------------- messages
\* message.includes(needle): needle occurs as a contiguous run of words.
Includes(msg, needle) ==
  \E i \in 1..(Len(msg) - Len(needle) + 1) :
     SubSeq(msg, i, i + Len(needle) - 1) = needle

MsgInvalidId == <<"ID", "inválido", ".", "Deve", "ser", "um", "número", "positivo">>
MsgMissingFields == <<"Nome", ",", "email", "e", "senha", "são", "obrigatórios">>
MsgDuplicateEmail == <<"Email", "já", "cadastrado", "no", "sistema">>
MsgEmailInUse == <<"Email", "já", "está", "em", "uso", "por", "outro", "usuário">>
MsgNotFound(userId) == <<"Usuário", "com", "ID">> \o userId \o <<"não", "encontrado">>

\* Errors raised by the runtime and by the persistence client.
MsgDestructure == <<"Cannot", "destructure", "property", "nome", "of", "userData",
                    "as", "it", "is", "undefined">>
MsgReadUndefined == <<"Cannot", "read", "properties", "of", "undefined",
                      "(", "reading", "email", ")">>
MsgUniqueConstraint == <<"Unique", "constraint", "failed", "on", "the", "fields",
                         ":", "(", "email", ")">>
MsgRecordMissing == <<"An", "operation", "failed", "because", "it", "depends", "on",
                      "one", "or", "more", "records", "that", "were", "required",
                      "but", "not", "found">>
MsgInvalidInvocation == <<"Invalid", "prisma", "invocation", ":", "Argument", "id",
                          "is", "missing">>
MsgIntOutOfRange == <<"Invalid", "prisma", "invocation", ":", "Unable", "to", "fit",
                      "integer", "value", "into", "an", "INT4">>

\* ------------------------------------------------------------ the table
\* Columns of "users" (data_criacao is the createdAt field of the client).
UserColumns == {"id", "nome", "email", "senha", "papel", "foto", "createdAt", "updatedAt"}

\* findUnique({ where: { id } }): the set holding the row, or {} for null.
FindById(tbl, id) == {r \in tbl : r.id = id}

\* findUnique({ where: { email } })
FindByEmail(tbl, email) == {r \in tbl : r.email = email}


\* The table without its unique index on email.
UniqueViolationNoIndex(tbl, email, selfId) == FALSE

\* Unique index users_email_key: writing <email> into the row <selfId>
\* (0 for an insert) is rejected when another row already holds it.
UniqueViolation(tbl, email, selfId) ==
  \E r \in tbl : r.email = email /\ r.id # selfId


\* An allocator that hands out the smallest id no row is using.
NextValReuse(seq, tbl) ==
  CHOOSE i \in 1..(Cardinality(tbl) + 1) :
     /\ \A r \in tbl : r.id # i
     /\ \A j \in 1..(i - 1) : \E r \in tbl : r.id = j

\* "id" SERIAL: the value handed to an insert is the sequence's next value;
\* it does not depend on which rows are still in the table.
NextVal(seq, tbl) == seq

\* select: { ... } projections of the service.
ReadSelect == {"id", "nome", "email", "papel", "foto", "createdAt"}

\* A create that returns the stored row as it is.
CreateSelectAll == {"id", "nome", "email", "senha", "papel", "foto", "createdAt"}

CreateSelect == {"id", "nome", "email", "papel", "foto", "createdAt"}
UpdateSelect == {"id", "nome", "email", "papel", "foto", "createdAt", "updatedAt"}

\* A delete that only captures the id of the row.
DeleteSelectIdOnly == {"id"}

DeleteSelect == {"id", "nome", "email"}

Project(row, fields) == [f \in fields |-> row[f]]

\* orderBy: { createdAt: 'desc' }
RECURSIVE SortDesc(_)
SortDesc(rows) ==
  IF rows = {} THEN <<>>
  ELSE LET m == CHOOSE r \in rows : \A q \in rows : q.createdAt <= r.createdAt
       IN <<m>> \o SortDesc(rows \ {m})

MapSeq(s, fields) == [i \in 1..Len(s) |-> Project(s[i], fields)]

\* ------------------------------------------------------- request bodies
\* userData: req.body, either undefined (no body parsed) or an object whose
\* missing properties read as undefined.
NoBody == [isObj |-> FALSE, nome |-> Undef, email |-> Undef, senha |-> Undef,
           papel |-> Undef, foto |-> Undef]

Obj(nome, email, senha, papel, foto) ==
  [isObj |-> TRUE, nome |-> nome, email |-> email, senha |-> senha,
   papel |-> papel, foto |-> foto]


\* validateUserData:  !nome || !email || !senha
MissingFields(b) == ~Truthy(b.nome) \/ ~Truthy(b.email) \/ ~Truthy(b.senha)


\* A create that stores the email in the name column.
CreateDataSwapped(b) ==
  [nome |-> b.email, email |-> b.email, senha |-> b.senha,
   papel |-> IF Truthy(b.papel) THEN b.papel ELSE "PROFESSOR",
   foto |-> IF Truthy(b.foto) THEN b.foto ELSE Null]

\* data: { ... } of prisma.user.create in createUser
CreateData(b) ==
  [nome |-> b.nome, email |-> b.email, senha |-> b.senha,
   papel |-> IF Truthy(b.papel) THEN b.papel ELSE "PROFESSOR",
   foto |-> IF Truthy(b.foto) THEN b.foto ELSE Null]

\* A merge that treats photo like the other fields and drops a null.
UpdateFieldsTruthyFoto(b) ==
  {f \in {"nome", "email", "senha", "papel", "foto"} : Truthy(b[f])}

\* dadosAtualizacao of updateUser: the set of columns it carries ...
UpdateFields(b) ==
  {f \in {"nome", "email", "senha", "papel"} : Truthy(b[f])}
    \cup (IF b.foto # Undef THEN {"foto"} ELSE {})

\* ... and the row that prisma.user.update writes from it at time t.
ApplyUpdate(row, b, t) ==
  [f \in UserColumns |->
     IF f \in UpdateFields(b) THEN b[f]
     ELSE IF f = "updatedAt" THEN t
     ELSE row[f]]


\* An update that checks uniqueness of every email it is given, the
\* user's own included.
UpdateFindNextNoSelf(found, b) ==
  IF found = {} THEN "notfound"
  ELSE IF ~b.isObj THEN "typeerror"
  ELSE IF Truthy(b.email) THEN "check"
  ELSE "write"

\* An update that looks at the email before it looks at the row.
UpdateFindNextEmailFirst(found, b) ==
  IF b.isObj /\ Truthy(b.email)
     /\ (found = {} \/ b.email # (CHOOSE r \in found : TRUE).email) THEN "check"
  ELSE IF found = {} THEN "notfound"
  ELSE IF ~b.isObj THEN "typeerror"
  ELSE "write"

\* What updateUser does once its existence lookup has returned <found>:
\* "notfound", "typeerror" (userData is undefined), "check" (email lookup)
\* or "write".
UpdateFindNext(found, b) ==
  IF found = {} THEN "notfound"
  ELSE IF ~b.isObj THEN "typeerror"
  ELSE IF Truthy(b.email) /\ b.email # (CHOOSE r \in found : TRUE).email THEN "check"
  ELSE "write"

\* ------------------------------------------------------------ responses
NoResp == [status |-> 0, message |-> <<>>, data |-> <<>>, error |-> <<>>]

Success(status, message, data) ==
  [status |-> status, message |-> message, data |-> data, error |-> <<>>]

\* res.status(4xx).json({ success: false, message: error.message })
Refuse(status, message) ==
  [status |-> status, message |-> message, data |-> <<>>, error |-> <<>>]

\* res.status(500).json({ success: false, message, error: error.message })
Fail(message, error) ==
  [status |-> 500, message |-> message, data |-> <<>>, error |-> error]

\* catch blocks of the controller
getAllCatch(msg) == Fail(<<"Erro", "ao", "listar", "usuários">>, msg)

getByIdCatch(msg) ==
  IF Includes(msg, <<"inválido">>) THEN Refuse(400, msg)
  ELSE Fail(<<"Erro", "ao", "buscar", "usuário">>, msg)

createCatch(msg) ==
  IF Includes(msg, <<"obrigatórios">>) \/ Includes(msg, <<"já", "cadastrado">>)
  THEN Refuse(400, msg)
  ELSE Fail(<<"Erro", "ao", "criar", "usuário">>, msg)

updateCatch(msg) ==
  IF Includes(msg, <<"já", "está", "em", "uso">>) THEN Refuse(400, msg)
  ELSE IF Includes(msg, <<"não", "encontrado">>) THEN Refuse(404, msg)
  ELSE Fail(<<"Erro", "ao", "atualizar", "usuário">>, msg)

removeCatch(msg) ==
  IF Includes(msg, <<"não", "encontrado">>) THEN Refuse(404, msg)
  ELSE Fail(<<"Erro", "ao", "remover", "usuário">>, msg)

\* --------------------------------------------------------------- inputs
\* :id route parameters ("1", "2", "abc", "0", "-1", "1.5", "1e1", "1E1",
\* "0x10", " 1", "Infinity", "1e-400", "99999999999", U+000B "1",
\* "1" U+00A0, U+2003 "1")
IdOne == <<"1">>
IdTwo == <<"2">>
IdAbc == <<"a", "b", "c">>
IdZero == <<"0">>
IdMinusOne == <<"-", "1">>
IdOnePointFive == <<"1", ".", "5">>
IdOneE1 == <<"1", "e", "1">>
IdOneUpperE1 == <<"1", "E", "1">>
IdHex10 == <<"0", "x", "1", "0">>
IdSpaceOne == <<" ", "1">>
IdInfinity == <<"I", "n", "f", "i", "n", "i", "t", "y">>
IdUnderflow == <<"1", "e", "-", "4", "0", "0">>
IdElevenNines == <<"9", "9", "9", "9", "9", "9", "9", "9", "9", "9", "9">>
IdTabulationOne == <<"", "1">>
IdOneNoBreakSpace == <<"1", " ">>
IdEmSpaceOne == <<"U+2003", "1">>

Ids == {IdOne, IdTwo, IdAbc, IdZero}
OddIds == {IdOne, IdAbc, IdZero, IdMinusOne, IdOnePointFive, IdOneE1,
           IdOneUpperE1, IdHex10, IdSpaceOne, IdInfinity, IdUnderflow,
           IdElevenNines, IdTabulationOne, IdOneNoBreakSpace, IdEmSpaceOne}

EmailA == "a@escola.com"
EmailB == "b@escola.com"

CreateBodies ==
  { Obj("Ana", EmailA, "senha123", Undef, Undef),
    Obj("Bia", EmailB, "senha456", "ADMIN", "foto.png"),
    Obj("Bia", EmailA, "senha456", Undef, Undef),
    Obj(Undef, EmailB, "senha123", Undef, Undef),
    Obj("Ana", "", "senha123", Undef, Undef),
    Obj("Ana", EmailA, Undef, Undef, Undef),
    NoBody }

UpdateBodies ==
  { Obj(Undef, Undef, Undef, Undef, Undef),
    Obj("Bia", Undef, Undef, Undef, Undef),
    Obj(Undef, EmailA, Undef, Undef, Undef),
    Obj(Undef, EmailB, "senha789", Undef, Null),
    NoBody }

\* Payloads that exercise single fields: an email without '@', a short
\* password, a role outside the enumeration, empty strings, null, and a
\* body that also carries id and createdAt.
FieldIds == {IdOne, IdTwo}

FieldCreateBodies ==
  { Obj("Ana", EmailA, "senha123", Undef, Undef),
    Obj("Bia", EmailB, "senha456", "ADMIN", "foto.png"),
    Obj("Teste", "emailinvalido", "senha123", Undef, Undef),
    Obj("Teste", EmailB, "123", Undef, Undef),
    Obj("Ana", EmailA, "senha123", "ALUNO", Undef) }

FieldUpdateBodies ==
  { Obj("", Undef, "", Undef, ""),
    [isObj |-> TRUE, nome |-> "Bia", email |-> Undef, senha |-> Undef,
     papel |-> "ADMIN", foto |-> Null, id |-> 9, createdAt |-> 0],
    Obj(Undef, EmailB, "senha789", Undef, Undef),
    Obj(Undef, Undef, Undef, "ALUNO", Undef) }

\* ----------------------------------------------------------------- state
Init ==
  /\ users = {}
  /\ nextId = 1
  /\ now = 1
  /\ pc = [p \in Procs |-> "idle"]
  /\ op = [p \in Procs |-> "none"]
  /\ rid = [p \in Procs |-> <<>>]
  /\ body = [p \in Procs |-> NoBody]
  /\ usuarioExistente = [p \in Procs |-> {}]
  /\ resp = [p \in Procs |-> NoResp]
  /\ log = [p \in Procs |-> <<>>]
  /\ reqCount = 0
  /\ removed = {}
  /\ created = {}
  /\ touched = {}

History == <<removed, created, touched>>
Table == <<users, nextId, now>>

\* The handler of p answers r: the exchange is over.
Reply(p, r) ==
  /\ resp' = [resp EXCEPT ![p] = r]
  /\ pc' = [pc EXCEPT ![p] = "done"]

Goto(p, label) ==
  /\ pc' = [pc EXCEPT ![p] = label]
  /\ UNCHANGED resp

Called(p, call) == log' = [log EXCEPT ![p] = Append(@, call)]

\* A request arrives; the handler runs up to its first await.
Accept(p, o, id, b) ==
  /\ pc[p] = "idle"
  /\ reqCount < MaxReqs
  /\ reqCount' = reqCount + 1
  /\ op' = [op EXCEPT ![p] = o]
  /\ rid' = [rid EXCEPT ![p] = id]
  /\ body' = [body EXCEPT ![p] = b]
  /\ UNCHANGED <<Table, usuarioExistente, log, History>>

\* GET /users
getAll(p) ==
  /\ Accept(p, "getAll", <<>>, NoBody)
  /\ Goto(p, "getAll_findMany")

getAllUsers(p) ==
  /\ pc[p] = "getAll_findMany"
  /\ Called(p, "findMany")
  /\ Reply(p, Success(200, <<>>, MapSeq(SortDesc(users), ReadSelect)))
  /\ UNCHANGED <<Table, op, rid, body, usuarioExistente, reqCount, History>>

\* GET /users/:id
getById(p, id) ==
  /\ Accept(p, "getById", id, NoBody)
  /\ IF InvalidId(id) THEN Reply(p, getByIdCatch(MsgInvalidId))
     ELSE Goto(p, "getById_findUnique")

getUserById(p) ==
  /\ pc[p] = "getById_findUnique"
  /\ Called(p, "findUnique")
  /\ LET n == ParseInt(rid[p])
         found == FindById(users, n.val)
     IN IF n.nan THEN Reply(p, getByIdCatch(MsgInvalidInvocation))
        ELSE IF n.big THEN Reply(p, getByIdCatch(MsgIntOutOfRange))
        ELSE IF found = {} THEN Reply(p, Refuse(404, MsgNotFound(rid[p])))
        ELSE Reply(p, Success(200, <<>>,
                     <<Project(CHOOSE r \in found : TRUE, ReadSelect)>>))
  /\ UNCHANGED <<Table, op, rid, body, usuarioExistente, reqCount, History>>

\* POST /users
create(p, b) ==
  /\ Accept(p, "create", <<>>, b)
  /\ IF ~b.isObj THEN Reply(p, createCatch(MsgDestructure))
     ELSE IF MissingFields(b) THEN Reply(p, createCatch(MsgMissingFields))
     ELSE Goto(p, "create_emailExists")

emailExists(p) ==
  /\ pc[p] = "create_emailExists"
  /\ Called(p, "findUnique")
  /\ IF FindByEmail(users, body[p].email) # {}
     THEN Reply(p, createCatch(MsgDuplicateEmail))
     ELSE Goto(p, "create_insert")
  /\ UNCHANGED <<Table, op, rid, body, usuarioExistente, reqCount, History>>

createUser(p) ==
  /\ pc[p] = "create_insert"
  /\ Called(p, "create")
  /\ nextId' = nextId + 1
  /\ LET d == CreateData(body[p])
         row == [id |-> NextVal(nextId, users), nome |-> d.nome, email |-> d.email,
                 senha |-> d.senha, papel |-> d.papel, foto |-> d.foto,
                 createdAt |-> now, updatedAt |-> now]
     IN IF UniqueViolation(users, d.email, 0)
        THEN /\ Reply(p, createCatch(MsgUniqueConstraint))
             /\ UNCHANGED <<users, now, History>>
        ELSE /\ users' = users \cup {row}
             /\ now' = now + 1
             /\ created' = created \cup
                  {[id |-> row.id, nome |-> body[p].nome, email |-> body[p].email]}
             /\ Reply(p, Success(201, <<"Usuário", "criado", "com", "sucesso">>,
                                 <<Project(row, CreateSelect)>>))
             /\ UNCHANGED <<removed, touched>>
  /\ UNCHANGED <<op, rid, body, usuarioExistente, reqCount>>

\* PUT /users/:id
update(p, id, b) ==
  /\ Accept(p, "update", id, b)
  /\ IF InvalidId(id) THEN Reply(p, updateCatch(MsgInvalidId))
     ELSE Goto(p, "update_findUnique")

updateFind(p) ==
  /\ pc[p] = "update_findUnique"
  /\ Called(p, "findUnique")
  /\ LET n == ParseInt(rid[p])
         found == FindById(users, n.val)
         next == UpdateFindNext(found, body[p])
     IN IF n.nan \/ n.big
        THEN /\ Reply(p, updateCatch(IF n.nan THEN MsgInvalidInvocation
                                     ELSE MsgIntOutOfRange))
             /\ UNCHANGED usuarioExistente
        ELSE /\ usuarioExistente' = [usuarioExistente EXCEPT ![p] = found]
             /\ CASE next = "notfound" -> Reply(p, updateCatch(MsgNotFound(rid[p])))
                  [] next = "typeerror" -> Reply(p, updateCatch(MsgReadUndefined))
                  [] next = "check" -> Goto(p, "update_emailExists")
                  [] next = "write" -> Goto(p, "update_write")
  /\ UNCHANGED <<Table, op, rid, body, reqCount, History>>

updateEmailExists(p) ==
  /\ pc[p] = "update_emailExists"
  /\ Called(p, "findUnique")
  /\ IF FindByEmail(users, body[p].email) # {}
     THEN Reply(p, updateCatch(MsgEmailInUse))
     ELSE Goto(p, "update_write")
  /\ UNCHANGED <<Table, op, rid, body, usuarioExistente, reqCount, History>>

updateUser(p) ==
  /\ pc[p] = "update_write"
  /\ Called(p, "update")
  /\ LET id == ParseInt(rid[p]).val
         target == FindById(users, id)
         b == body[p]
     IN IF target = {}
        THEN /\ Reply(p, updateCatch(MsgRecordMissing))
             /\ UNCHANGED <<Table, History>>
        ELSE IF "email" \in UpdateFields(b) /\ UniqueViolation(users, b.email, id)
        THEN /\ Reply(p, updateCatch(MsgUniqueConstraint))
             /\ UNCHANGED <<Table, History>>
        ELSE LET row == ApplyUpdate(CHOOSE r \in target : TRUE, b, now)
             IN /\ users' = (users \ target) \cup {row}
                /\ now' = now + 1
                /\ touched' = touched \cup {id}
                /\ Reply(p, Success(200, <<"Usuário", "atualizado", "com", "sucesso">>,
                                    <<Project(row, UpdateSelect)>>))
                /\ UNCHANGED <<nextId, removed, created>>
  /\ UNCHANGED <<op, rid, body, usuarioExistente, reqCount>>

\* DELETE /users/:id
remove(p, id) ==
  /\ Accept(p, "remove", id, NoBody)
  /\ IF InvalidId(id) THEN Reply(p, removeCatch(MsgInvalidId))
     ELSE Goto(p, "remove_findUnique")

removeFind(p) ==
  /\ pc[p] = "remove_findUnique"
  /\ Called(p, "findUnique")
  /\ LET n == ParseInt(rid[p])
         found == FindById(users, n.val)
     IN IF n.nan \/ n.big
        THEN /\ Reply(p, removeCatch(IF n.nan THEN MsgInvalidInvocation
                                     ELSE MsgIntOutOfRange))
             /\ UNCHANGED usuarioExistente
        ELSE IF found = {}
        THEN /\ Reply(p, removeCatch(MsgNotFound(rid[p])))
             /\ UNCHANGED usuarioExistente
        ELSE /\ usuarioExistente' = [usuarioExistente EXCEPT ![p] =
                  {Project(r, DeleteSelect) : r \in found}]
             /\ Goto(p, "remove_delete")
  /\ UNCHANGED <<Table, op, rid, body, reqCount, History>>

deleteUser(p) ==
  /\ pc[p] = "remove_delete"
  /\ Called(p, "delete")
  /\ LET id == ParseInt(rid[p]).val
         target == FindById(users, id)
     IN IF target = {}
        THEN /\ Reply(p, removeCatch(MsgRecordMissing))
             /\ UNCHANGED <<Table, History>>
        ELSE /\ users' = users \ target
             /\ removed' = removed \cup {id}
             /\ touched' = touched \cup {id}
             /\ Reply(p, Success(200, <<"Usuário", "removido", "com", "sucesso">>,
                                 <<CHOOSE u \in usuarioExistente[p] : TRUE>>))
             /\ UNCHANGED <<nextId, now, created>>
  /\ UNCHANGED <<op, rid, body, usuarioExistente, reqCount>>

\* The response has been sent; the slot is free for the next exchange.
Close(p) ==
  /\ pc[p] = "done"
  /\ pc' = [pc EXCEPT ![p] = "idle"]
  /\ op' = [op EXCEPT ![p] = "none"]
  /\ rid' = [rid EXCEPT ![p] = <<>>]
  /\ body' = [body EXCEPT ![p] = NoBody]
  /\ usuarioExistente' = [usuarioExistente EXCEPT ![p] = {}]
  /\ resp' = [resp EXCEPT ![p] = NoResp]
  /\ log' = [log EXCEPT ![p] = <<>>]
  /\ UNCHANGED <<Table, reqCount, History>>

\* Steps of requests already accepted.
Step(p) ==
  \/ getAllUsers(p)
  \/ getUserById(p)
  \/ emailExists(p)
  \/ createUser(p)
  \/ updateFind(p)
  \/ updateEmailExists(p)
  \/ updateUser(p)
  \/ removeFind(p)
  \/ deleteUser(p)
  \/ Close(p)

Next ==
  \E p \in Procs :
     \/ getAll(p)
     \/ \E id \in Ids : getById(p, id)
     \/ \E b \in CreateBodies : create(p, b)
     \/ \E id \in Ids, b \in UpdateBodies : update(p, id, b)
     \/ \E id \in Ids : remove(p, id)
     \/ Step(p)

Spec == Init /\ [][Next]_vars

TypeOK ==
  /\ \A r \in users : DOMAIN r = UserColumns
  /\ nextId \in 1..(MaxReqs + 1)
  /\ reqCount \in 0..MaxReqs

\* The same handlers driven with the wider set of :id parameters.
NextIds ==
  \E p \in Procs :
     \/ getAll(p)
     \/ \E id \in OddIds : getById(p, id)
     \/ \E b \in {Obj("Ana", EmailA, "senha123", Undef, Undef)} : create(p, b)
     \/ \E id \in OddIds, b \in {Obj("Bia", EmailB, Undef, Undef, Undef)} : update(p, id, b)
     \/ \E id \in OddIds : remove(p, id)
     \/ Step(p)

SpecIds == Init /\ [][NextIds]_vars

\* The same handlers driven with the field-by-field payloads.
NextFields ==
  \E p \in Procs :
     \/ getAll(p)
     \/ \E id \in FieldIds : getById(p, id)
     \/ \E b \in FieldCreateBodies : create(p, b)
     \/ \E id \in FieldIds, b \in FieldUpdateBodies : update(p, id, b)
     \/ \E id \in FieldIds : remove(p, id)
     \/ Step(p)

SpecFields == Init /\ [][NextFields]_vars

\* ------------------------------------------------------------ properties
\* What the handler of p threw, wherever the controller put it.
Thrown(p) == IF resp[p].error # <<>> THEN resp[p].error ELSE resp[p].message

Finished(p, o) == pc[p] = "done" /\ op[p] = o

\* p took the step that leaves label l.
Left(p, l) == pc[p] = l /\ pc'[p] # l

Blank(v) == v = Undef \/ v = Null \/ v = ""

\* C1: in every reachable state no two stored users have the same email.
EmailUnique ==
  \A r1 \in users : \A r2 \in users : r1.email = r2.email => r1 = r2

\* The unique index has rejected a raced insert while the email is stored.
EmailUniqueWitness ==
  \E p \in Procs :
     /\ Finished(p, "create")
     /\ resp[p].error = MsgUniqueConstraint
     /\ \E r \in users : r.email = body[p].email

\* C2: two valid creates with the same email against a table that does not
\* hold it end, in every interleaving, in one 201 and one DuplicateEmail/400.
TwoCreatesOneDuplicate ==
  \A p \in Procs : \A q \in Procs \ {p} :
     ( /\ reqCount = 2
       /\ Finished(p, "create") /\ Finished(q, "create")
       /\ body[p].isObj /\ body[q].isObj
       /\ ~Blank(body[p].nome) /\ ~Blank(body[p].senha) /\ ~Blank(body[p].email)
       /\ ~Blank(body[q].nome) /\ ~Blank(body[q].senha)
       /\ body[p].email = body[q].email )
     => \/ /\ resp[p].status = 201
           /\ resp[q].status = 400 /\ resp[q].message = MsgDuplicateEmail
        \/ /\ resp[q].status = 201
           /\ resp[p].status = 400 /\ resp[p].message = MsgDuplicateEmail

\* The refusals of create, as left in the slot and as taken step by step.
CreateRefusedState ==
  \A p \in Procs :
     ( /\ Finished(p, "create")
       /\ (Blank(body[p].nome) \/ Blank(body[p].email) \/ Blank(body[p].senha)) )
     => /\ resp[p] = Refuse(400, MsgMissingFields)
        /\ log[p] = <<>>

CreateRefusedStep ==
  \A p \in Procs :
     /\ ( /\ Left(p, "idle") /\ op'[p] = "create"
          /\ (Blank(body'[p].nome) \/ Blank(body'[p].email) \/ Blank(body'[p].senha)) )
        => /\ pc'[p] = "done"
           /\ resp'[p].status = 400
           /\ users' = users /\ nextId' = nextId
     /\ ( /\ Left(p, "create_emailExists")
          /\ \E r \in users : r.email = body[p].email )
        => /\ pc'[p] = "done"
           /\ resp'[p] = Refuse(400, MsgDuplicateEmail)
           /\ log'[p] = <<"findUnique">>
           /\ users' = users /\ nextId' = nextId

\* C3: a create that lacks name, email or password (absent or empty, a
\* request without any body included) is refused with MissingFields/400 before any lookup; otherwise a
\* create whose lookup finds its email stored is refused with
\* DuplicateEmail/400; neither refusal changes the table or the id sequence.
CreateRefused == []CreateRefusedState /\ [][CreateRefusedStep]_vars

\* The passwords that requests carry.
Passwords == {"senha123", "senha456", "senha789"}

\* C4: no response of any operation, success or failure, carries a password.
NoPasswordInResponse ==
  \A p \in Procs :
     /\ \A i \in 1..Len(resp[p].data) :
           /\ "senha" \notin DOMAIN resp[p].data[i]
           /\ \A f \in DOMAIN resp[p].data[i] \ {"id", "createdAt", "updatedAt"} :
                 resp[p].data[i][f] \notin Passwords
     /\ \A i \in 1..Len(resp[p].message) : resp[p].message[i] \notin Passwords
     /\ \A i \in 1..Len(resp[p].error) : resp[p].error[i] \notin Passwords

\* A created user and an updated password are stored, and both slots hold
\* answers that carry user records.
NoPasswordInResponseWitness ==
  /\ \E r \in users : r.senha = "senha789"
  /\ \E p \in Procs : Finished(p, "update") /\ resp[p].status = 200
  /\ \E q \in Procs : Finished(q, "getAll") /\ Len(resp[q].data) > 0

\* The id a handler hands to the table for the route parameter of p.
AskedId(p) == ParseInt(rid[p]).val

ValidPayload(b) ==
  b.isObj /\ ~Blank(b.nome) /\ ~Blank(b.email) /\ ~Blank(b.senha)

\* The steps of a create and of the lookup that follows it.
CreateThenGetStep ==
  \A p \in Procs :
     /\ (Left(p, "idle") /\ op'[p] = "create" /\ ValidPayload(body'[p]))
        => pc'[p] = "create_emailExists"
     /\ ( /\ Left(p, "create_emailExists")
          /\ ~\E r \in users : r.email = body[p].email )
        => pc'[p] = "create_insert"
     /\ ( /\ Left(p, "create_insert")
          /\ ~\E r \in users : r.email = body[p].email )
        => /\ resp'[p].status = 201
           /\ Len(resp'[p].data) = 1
           /\ resp'[p].data[1].nome = body[p].nome
           /\ resp'[p].data[1].email = body[p].email
           /\ \A r \in users : r.id # resp'[p].data[1].id
           /\ \E r \in users' :
                 /\ r.id = resp'[p].data[1].id
                 /\ r.nome = body[p].nome /\ r.email = body[p].email
     /\ Left(p, "getById_findUnique")
        => \A c \in created :
              (c.id = AskedId(p) /\ c.id \notin touched)
              => /\ resp'[p].status = 200
                 /\ Len(resp'[p].data) = 1
                 /\ resp'[p].data[1].id = c.id
                 /\ resp'[p].data[1].nome = c.nome
                 /\ resp'[p].data[1].email = c.email

\* C5: a valid create whose email is not stored succeeds and returns the
\* payload's name and email; as long as no update or delete of the returned
\* id has been applied, getById of that id answers 200 with the same id,
\* name and email.
CreateThenGet == [][CreateThenGetStep]_vars

\* A getById has answered 200 for a created user that nothing has touched.
CreateThenGetWitness ==
  \E p \in Procs :
     /\ Finished(p, "getById") /\ resp[p].status = 200
     /\ \E c \in created : c.id = AskedId(p) /\ c.id \notin touched

\* Removed ids in the table and in the lookup of getById.
RemovedStaysGoneState == \A r \in users : r.id \notin removed

RemovedStaysGoneStep ==
  \A p \in Procs :
     (Left(p, "getById_findUnique") /\ AskedId(p) \in removed)
     => resp'[p].status = 404

\* C6: once delete(id) has succeeded, every later getById(id) answers 404,
\* whatever happens in between: no stored user ever has a removed id.
RemovedStaysGone == []RemovedStaysGoneState /\ [][RemovedStaysGoneStep]_vars

\* A getById of a removed id has answered 404 after a later create.
RemovedStaysGoneWitness ==
  \E p \in Procs :
     /\ Finished(p, "getById") /\ resp[p].status = 404
     /\ AskedId(p) \in removed
     /\ \E r \in users : r.id > AskedId(p)

\* Decimal text of a positive integer.
PositiveIntegerText(s) ==
  /\ s # <<>>
  /\ \A i \in 1..Len(s) : s[i] \in Digits
  /\ \E i \in 1..Len(s) : s[i] # "0"

\* C7: getById answers InvalidInput/400 without any lookup for every id that
\* is not a positive integer, and 200 or 404 for every positive integer; a
\* 200 carries the id that was asked for.
GetByIdValidation ==
  \A p \in Procs :
     Finished(p, "getById")
     => /\ PositiveIntegerText(rid[p]) => resp[p].status \in {200, 404}
        /\ ~PositiveIntegerText(rid[p])
             => /\ resp[p].status = 400
                /\ resp[p].message = MsgInvalidId
                /\ log[p] = <<>>
        /\ resp[p].status = 200
             => /\ PositiveIntegerText(rid[p])
                /\ resp[p].data[1].id = DigitsValue(rid[p])

\* The failures of the taxonomy that map to 400.
Classified400 == {MsgInvalidId, MsgMissingFields, MsgDuplicateEmail, MsgEmailInUse}

\* C8: the adapter maps outcomes to statuses in the same way for every
\* operation: InvalidInput, MissingFields, DuplicateEmail and EmailInUse
\* give 400, NotFound gives 404, and only unclassified failures give 500.
UniformStatusMapping ==
  \A p \in Procs :
     (pc[p] = "done" /\ resp[p].status >= 400)
     => /\ Thrown(p) \in Classified400 => resp[p].status = 400
        /\ Thrown(p) = MsgNotFound(rid[p]) => resp[p].status = 404
        /\ resp[p].status = 500
             => Thrown(p) \notin Classified400 \cup {MsgNotFound(rid[p])}

\* The round trips of an update and what each of its steps may do.
UpdateOrderState ==
  \A p \in Procs :
     op[p] = "update"
     => /\ log[p] \in { <<>>, <<"findUnique">>, <<"findUnique", "findUnique">>,
                        <<"findUnique", "update">>,
                        <<"findUnique", "findUnique", "update">> }
        /\ InvalidId(rid[p])
             => pc[p] = "done" /\ Thrown(p) = MsgInvalidId /\ log[p] = <<>>
        /\ (pc[p] = "done" /\ Thrown(p) = MsgNotFound(rid[p]))
             => log[p] = <<"findUnique">> /\ usuarioExistente[p] = {}
        /\ (pc[p] = "done" /\ Thrown(p) = MsgEmailInUse)
             => /\ log[p] = <<"findUnique", "findUnique">>
                /\ usuarioExistente[p] # {}
        /\ (log[p] # <<>> /\ log[p][Len(log[p])] = "update")
             => /\ usuarioExistente[p] # {}
                /\ \A u \in usuarioExistente[p] :
                      (~Blank(body[p].email) /\ body[p].email # u.email)
                      => Len(log[p]) = 3

UpdateOrderStep ==
  \A p \in Procs :
     /\ ( /\ Left(p, "update_findUnique")
          /\ ~ParseInt(rid[p]).nan /\ ~ParseInt(rid[p]).big
          /\ ~\E r \in users : r.id = AskedId(p) )
        => /\ pc'[p] = "done"
           /\ resp'[p] = Refuse(404, MsgNotFound(rid[p]))
     /\ (op[p] = "update" /\ pc[p] # "update_write" /\ pc'[p] # pc[p])
        => users' = users
     /\ (Left(p, "update_write") /\ users' # users)
        => /\ usuarioExistente[p] # {}
           /\ \A u \in usuarioExistente[p] :
                 (~Blank(body[p].email) /\ body[p].email # u.email)
                 => log[p] = <<"findUnique", "findUnique">>

\* C9: update checks id validity, then existence, then email uniqueness,
\* then merges and writes; the earliest violated rule is the one reported
\* and nothing is written before all checks have passed.
UpdateOrder == []UpdateOrderState /\ [][UpdateOrderStep]_vars

\* An update of an absent id that carries another user's email is answered
\* NotFound.
UpdateOrderWitness ==
  \E p \in Procs :
     /\ Finished(p, "update")
     /\ resp[p] = Refuse(404, MsgNotFound(rid[p]))
     /\ \E r \in users : r.email = body[p].email

\* A body that provides no field (an empty object, or no body at all).
EmptyBody(b) ==
  \A f \in {"nome", "email", "senha", "papel", "foto"} : b[f] = Undef

EmptyUpdateStep ==
  \A p \in Procs :
     /\ ( /\ Left(p, "update_findUnique") /\ EmptyBody(body[p])
          /\ \E r \in users : r.id = AskedId(p) )
        => pc'[p] = "update_write"
     /\ ( /\ Left(p, "update_write") /\ EmptyBody(body[p])
          /\ \E r \in users : r.id = AskedId(p) )
        => /\ resp'[p].status = 200
           /\ \A r \in users :
                 IF r.id = AskedId(p)
                 THEN \E w \in users' :
                         \A f \in UserColumns \ {"updatedAt"} : w[f] = r[f]
                 ELSE r \in users'
           /\ Cardinality(users') = Cardinality(users)

\* C10: an update of an existing user with an empty body or with no body
\* succeeds, changes nothing of that user but updatedAt, and changes no
\* other user.
EmptyUpdate == [][EmptyUpdateStep]_vars

\* The row of the user that the request of p addresses, before and after
\* a successful write of its update.
Updated(p) == Left(p, "update_write") /\ resp'[p].status = 200

UpdateMergesProvidedStep ==
  \A p \in Procs :
     Updated(p)
     => \A r \in users :
           r.id = AskedId(p)
           => \E w \in users' :
                 /\ w.id = r.id /\ w.createdAt = r.createdAt
                 /\ \A f \in {"nome", "email", "senha", "papel", "foto"} :
                       w[f] = IF body[p][f] # Undef THEN body[p][f] ELSE r[f]

UpdateMergesNonEmptyStep ==
  \A p \in Procs :
     Updated(p)
     => /\ \A r \in users :
              IF r.id = AskedId(p)
              THEN \E w \in users' :
                      /\ w.id = r.id /\ w.createdAt = r.createdAt
                      /\ \A f \in {"nome", "email", "senha", "papel"} :
                            w[f] = IF ~Blank(body[p][f]) THEN body[p][f] ELSE r[f]
                      /\ w.foto = IF body[p].foto # Undef THEN body[p].foto ELSE r.foto
              ELSE r \in users'
        /\ Cardinality(users') = Cardinality(users)

\* C11 as claimed: after a successful update every field among name, email,
\* password, role and photo that the body provides, whatever its value, is
\* stored as provided, every other one is unchanged, and id and createdAt
\* never change.
UpdateMergesProvided == [][UpdateMergesProvidedStep]_vars

\* C11 as amended: name, email, password and role are stored as provided
\* when the body provides a non-empty value and are unchanged otherwise
\* (not provided, null or empty string); photo is stored as provided
\* whenever the body provides it, null and the empty string included; id
\* and createdAt never change, even when the body carries them; no other
\* user changes.
UpdateMergesNonEmpty == [][UpdateMergesNonEmptyStep]_vars

\* An update whose body carries id, createdAt, a name, a role and a null
\* photo has been applied.
UpdateMergesNonEmptyWitness ==
  \E p \in Procs :
     /\ Finished(p, "update") /\ resp[p].status = 200
     /\ "id" \in DOMAIN body[p]
     /\ \E r \in users :
           /\ r.id = AskedId(p) /\ r.id # body[p].id
           /\ r.nome = body[p].nome /\ r.foto = Null /\ r.updatedAt > r.createdAt

\* The email steps of an update: what its existence lookup decides, what
\* its uniqueness lookup decides, and the write of an unchanged email.
EmailCheckedWhenChanged ==
  \A p \in Procs :
     pc[p] = "update_emailExists"
     => /\ usuarioExistente[p] # {}
        /\ ~Blank(body[p].email)
        /\ \A u \in usuarioExistente[p] : body[p].email # u.email

OwnEmailStep(p) ==
  /\ ( /\ Left(p, "update_findUnique") /\ body[p].isObj
       /\ \E r \in users :
             r.id = AskedId(p) /\ (body[p].email = Undef \/ body[p].email = r.email) )
     => pc'[p] = "update_write"
  /\ ( /\ Left(p, "update_findUnique") /\ body[p].isObj
       /\ \E r \in users :
             r.id = AskedId(p) /\ ~Blank(body[p].email) /\ body[p].email # r.email )
     => pc'[p] = "update_emailExists"
  /\ ( /\ Left(p, "update_write")
       /\ \E r \in users : r.id = AskedId(p) /\ body[p].email = r.email )
     => resp'[p].status = 200
  /\ (op[p] = "update" /\ resp'[p] = Refuse(400, MsgEmailInUse) /\ resp[p] # resp'[p])
     => (pc[p] = "update_emailExists" /\ users' = users)

EmailInUseIffOtherStep ==
  \A p \in Procs :
     /\ OwnEmailStep(p)
     /\ Left(p, "update_emailExists")
        => ( resp'[p] = Refuse(400, MsgEmailInUse)
             <=> \E r \in users : r.email = body[p].email /\ r.id # AskedId(p) )

EmailInUseIffHeldStep ==
  \A p \in Procs :
     /\ OwnEmailStep(p)
     /\ Left(p, "update_emailExists")
        => /\ ( resp'[p] = Refuse(400, MsgEmailInUse)
                <=> \E r \in users : r.email = body[p].email )
           /\ ( /\ resp'[p] = Refuse(400, MsgEmailInUse)
                /\ usuarioExistente[p] \subseteq users )
              => \E r \in users : r.email = body[p].email /\ r.id # AskedId(p)

\* C12 as claimed: an update of an existing user fails with EmailInUse/400,
\* leaving the table unchanged, if and only if the body provides an email
\* that differs from the user's current one and is held by another stored
\* user; an update to the user's own email never fails so and succeeds.
EmailInUseIffOther == []EmailCheckedWhenChanged /\ [][EmailInUseIffOtherStep]_vars

\* C12 as amended: the update fails with EmailInUse/400, leaving the table
\* unchanged, if and only if the body provides a non-empty email that
\* differs from the email its existence lookup read and that some stored
\* row holds when the uniqueness lookup runs; that row is another user's
\* whenever the user's row has not been rewritten since the existence
\* lookup.  An update to the user's own email never fails so and succeeds.
EmailInUseIffHeld == []EmailCheckedWhenChanged /\ [][EmailInUseIffHeldStep]_vars

\* An update has been refused for an email that another stored user holds.
EmailInUseIffHeldWitness ==
  \E p \in Procs :
     /\ Finished(p, "update") /\ resp[p] = Refuse(400, MsgEmailInUse)
     /\ \E r \in users : r.id = AskedId(p) /\ r.email # body[p].email
     /\ \E r \in users : r.id # AskedId(p) /\ r.email = body[p].email

\* An email without '@' and a password of fewer than 6 characters.
NoAt(email) == email \in {"emailinvalido"}
TooShort(senha) == Len(senha) < 6

\* C13: a create whose email has no '@' or whose password is shorter than 6
\* characters is answered 400 with a message naming Email or Senha, and no
\* such user is stored.
InvalidCreateRejected ==
  /\ \A p \in Procs :
        (Finished(p, "create") /\ body[p].isObj)
        => /\ NoAt(body[p].email)
                => resp[p].status = 400 /\ Includes(resp[p].message, <<"Email">>)
           /\ TooShort(body[p].senha)
                => resp[p].status = 400 /\ Includes(resp[p].message, <<"Senha">>)
  /\ \A r \in users : ~NoAt(r.email) /\ ~TooShort(r.senha)

\* The roles of the data model.
Roles == {"ADMIN", "PROFESSOR"}

\* C14: every stored user's role is ADMIN or PROFESSOR, whatever role the
\* bodies of create and update carry; create stores PROFESSOR when the role
\* is omitted.
RolesValid ==
  /\ \A r \in users : r.papel \in Roles
  /\ \A p \in Procs :
        (Finished(p, "create") /\ resp[p].status = 201 /\ body[p].papel = Undef)
        => resp[p].data[1].papel = "PROFESSOR"

\* {id, name, email} of a row.
Snapshot(r) == [id |-> r.id, nome |-> r.nome, email |-> r.email]

\* A delete of a valid id with no row is answered NotFound and changes
\* nothing; its existence lookup captures the snapshot of the row it finds;
\* its write removes exactly the addressed row.
RemoveFrameStep(p) ==
  /\ ( /\ Left(p, "remove_findUnique")
       /\ ~ParseInt(rid[p]).nan /\ ~ParseInt(rid[p]).big
       /\ ~\E r \in users : r.id = AskedId(p) )
     => /\ resp'[p] = Refuse(404, MsgNotFound(rid[p]))
        /\ users' = users
  /\ Left(p, "remove_findUnique")
     => \A r \in users :
           r.id = AskedId(p) => usuarioExistente'[p] = {Snapshot(r)} /\ users' = users
  /\ Left(p, "remove_delete")
     => \A r \in users :
           r.id = AskedId(p) => users' = users \ {r} /\ resp'[p].status = 200

RemoveReturnsLastRowStep ==
  \A p \in Procs :
     /\ RemoveFrameStep(p)
     /\ Left(p, "remove_delete")
        => \A r \in users :
              r.id = AskedId(p) => resp'[p].data = <<Snapshot(r)>>

RemoveReturnsCapturedStep ==
  \A p \in Procs :
     /\ RemoveFrameStep(p)
     /\ Left(p, "remove_delete")
        => \A r \in users :
              r.id = AskedId(p)
              => /\ \E u \in usuarioExistente[p] : resp'[p].data = <<u>> /\ u.id = r.id
                 /\ usuarioExistente[p] = {Snapshot(r)} => resp'[p].data = <<Snapshot(r)>>

\* C15 as claimed: a delete of an existing user removes exactly that row and
\* returns the {id, name, email} the row held immediately before removal; a
\* delete of a valid id with no row fails with NotFound/404 and changes
\* nothing.
RemoveReturnsLastRow == [][RemoveReturnsLastRowStep]_vars

\* C15 as amended: the delete removes exactly that row and returns the
\* {id, name, email} that its existence lookup captured, which is what the
\* row held immediately before removal unless an update rewrote the row
\* between the lookup and the removal; a delete of a valid id with no row
\* fails with NotFound/404 and changes nothing.
RemoveReturnsCaptured == [][RemoveReturnsCapturedStep]_vars

\* A delete has returned the snapshot of the row it removed while another
\* user stays stored.
RemoveReturnsCapturedWitness ==
  \E p \in Procs :
     /\ Finished(p, "remove") /\ resp[p].status = 200
     /\ resp[p].data[1].id = AskedId(p)
     /\ AskedId(p) \in removed
     /\ \E c \in created : c.id = AskedId(p) /\ resp[p].data[1].nome = c.nome
     /\ users # {}

\* A write that finds its row already removed, and the number of deletes
\* that can succeed for one id.
RacedWriteStep ==
  \A p \in Procs :
     /\ ( /\ Left(p, "remove_delete")
          /\ ~\E r \in users : r.id = AskedId(p) )
        => /\ resp'[p].status = 404
           /\ Includes(resp'[p].message, <<"não", "encontrado">>)
     /\ ( /\ Left(p, "update_write")
          /\ ~\E r \in users : r.id = AskedId(p) )
        => /\ resp'[p].status = 404
           /\ Includes(resp'[p].message, <<"não", "encontrado">>)
     /\ (Left(p, "remove_delete") /\ resp'[p].status = 200)
        => AskedId(p) \notin removed

\* C16: when requests race on the same existing id, every request whose
\* write finds the row already removed is answered NotFound/404, never 500,
\* and exactly one delete succeeds.
RacedWriteNotFound == [][RacedWriteStep]_vars

====
